---- MODULE Spec2Model ----
(***************************************************************************)
(* The article content engine of the portfolio site: ArticlesService.      *)
(*                                                                         *)
(* The service keeps one field, `articles`, that every load pass replaces  *)
(* as a whole.  A load pass is an async function: it runs until its next   *)
(* await, and other calls run in between.  The model has one slot per      *)
(* call of the service (the constructor's load, getArticles, or            *)
(* reloadArticles) and one action per run of code between two awaits.      *)
(*                                                                         *)
(* Strings the code only copies or compares are TLA+ strings; strings the  *)
(* code takes apart (titles, slugs, summaries, tags, bodies) are sequences *)
(* of one-character strings.  A metadata key that is absent and one that is the empty       *)
(* string are both falsy in every test the code makes (`!data.title`,      *)
(* `data.slug || ...`, `data.summary || ''`), so both are the empty value. *)
(***************************************************************************)
EXTENDS Integers, Sequences, FiniteSets, TLC

(***************************************************************************)
(* Bounds of the model.                                                    *)
(***************************************************************************)
\* How many of the configured article files the model loads.
NumFiles == 2
\* Calls of the service besides the constructor's own load.
MaxCalls == 2
\* Times the document source changes a document while the service runs.
MaxEdits == 1
\* Longest title of the single-document specification.
MaxTitleLen == 3

\* getArticleFiles(): the configured list, in order.
ArticleFiles ==
    << "apache-execcgi-fpm.md", "linux-performance-monitoring.md",
       "ai-model-deployment-kubernetes.md", "docker-optimization-production.md",
       "rust-system-tools-development.md" >>

getArticleFiles == [i \in 1..NumFiles |-> ArticleFiles[i]]

Files == 1..NumFiles
\* The calls: the constructor's, MaxCalls calls of any caller, and one more
\* for the component that loads two things when it mounts.
Procs == 1..(MaxCalls + 2)
Callers == 1..(MaxCalls + 1)

(***************************************************************************)
(* Dates.  new Date(s).getTime() of an ISO date is its UTC midnight; the   *)
(* model counts it in days since the epoch.  Any other text gives NaN.     *)
(***************************************************************************)
IsoDates == {"2022-09-22", "2023-11-08", "2024-01-20"}

IsNaNDate(d) == d \notin IsoDates

getTime(d) ==
    CASE d = "2022-09-22" -> 19257
      [] d = "2023-11-08" -> 19669
      [] d = "2024-01-20" -> 19742
      [] OTHER -> 0

\* The comparator of loadArticles: time(b) - time(a).  A NaN difference is
\* taken as +0 by Array.prototype.sort.
CompareNewestFirst(a, b) ==
    IF IsNaNDate(a.metadata.date) \/ IsNaNDate(b.metadata.date)
    THEN 0
    ELSE getTime(b.metadata.date) - getTime(a.metadata.date)

\* As InsertSorted, but an element goes before the elements it ties with.
InsertSortedBeforeTies(s, x) ==
    LET n == Len(s)
        k == CHOOSE i \in 0..n :
                /\ \A j \in (i + 1)..n : CompareNewestFirst(s[j], x) >= 0
                /\ (i = 0 \/ CompareNewestFirst(s[i], x) < 0)
    IN  SubSeq(s, 1, k) \o <<x>> \o SubSeq(s, k + 1, n)

\* Array.prototype.sort is stable: an element goes after the last element
\* that does not have to follow it.
InsertSorted(s, x) ==
    LET n == Len(s)
        k == CHOOSE i \in 0..n :
                /\ \A j \in (i + 1)..n : CompareNewestFirst(s[j], x) > 0
                /\ (i = 0 \/ CompareNewestFirst(s[i], x) <= 0)
    IN  SubSeq(s, 1, k) \o <<x>> \o SubSeq(s, k + 1, n)

RECURSIVE SortPrefix(_, _)
SortPrefix(s, n) ==
    IF n = 0 THEN <<>>
    ELSE CHOOSE r \in {InsertSorted(sorted, s[n]) : sorted \in {SortPrefix(s, n - 1)}} : TRUE

SortByDate(s) == SortPrefix(s, Len(s))

(***************************************************************************)
(* generateSlug: slugify(title, {lower, strict, remove}).                  *)
(***************************************************************************)
TitleChars == {"A", "b", " ", "-", "!"}

\* The backtick, which cannot be written in a string of this language.
Backtick == "BACKTICK"

\* The characters of the texts of the model.
TextChars ==
    {"A", "a", "b", " ", "-", "!", ".", "#", "*", Backtick, "[", "]", "(", ")",
     "\n", "\t"}

\* \s
IsSpace(c) == c \in {" ", "\n", "\t"}
IsAlnum(c) == c \in {"A", "a", "b"}
\* remove: /[*+~.()'"!:@]/g
IsRemoved(c) == c \in {"*", "+", "~", ".", "(", ")", "'", "!", ":", "@"}
toLowerCase(c) == IF c = "A" THEN "a" ELSE c

\* Per character: the replacement character counts as a space, and the
\* characters of `remove` are dropped.
RECURSIVE SlugChars(_)
SlugChars(t) ==
    IF t = <<>> THEN <<>>
    ELSE LET c == IF Head(t) = "-" THEN " " ELSE Head(t)
         IN  (IF IsRemoved(c) THEN <<>> ELSE <<c>>) \o SlugChars(Tail(t))

\* strict: /[^A-Za-z0-9\s]/g is removed.
IsStrictChar(c) == IsAlnum(c) \/ IsSpace(c)

RECURSIVE TrimLeft(_)
TrimLeft(t) ==
    IF t # <<>> /\ IsSpace(Head(t)) THEN TrimLeft(Tail(t)) ELSE t

RECURSIVE TrimRight(_)
TrimRight(t) ==
    IF t # <<>> /\ IsSpace(t[Len(t)]) THEN TrimRight(SubSeq(t, 1, Len(t) - 1)) ELSE t

\* /\s+/g -> '-'
RECURSIVE Hyphenate(_)
Hyphenate(t) ==
    IF t = <<>> THEN <<>>
    ELSE IF IsSpace(Head(t))
         THEN <<"-">> \o Hyphenate(TrimLeft(t))
         ELSE <<Head(t)>> \o Hyphenate(Tail(t))

generateSlug(title) ==
    LET kept == SelectSeq(SlugChars(title), IsStrictChar)
        dashed == Hyphenate(TrimRight(TrimLeft(kept)))
    IN  [i \in 1..Len(dashed) |-> toLowerCase(dashed[i])]

(***************************************************************************)
(* extractExcerpt: a chain of String.prototype.replace calls with global   *)
(* regular expressions, then a cut at `length`.  A replace scans the text  *)
(* from the left; where the expression matches, the match is replaced and  *)
(* the scan goes on behind it.                                             *)
(***************************************************************************)
\* Length of the run of characters of s from position i on that are in cs.
RECURSIVE RunLength(_, _, _)
RunLength(s, i, cs) ==
    IF i <= Len(s) /\ s[i] \in cs THEN 1 + RunLength(s, i + 1, cs) ELSE 0

Whitespace == {" ", "\n", "\t"}

\* `.` matches anything but a line terminator.
HasNewline(s, from, to) == \E k \in from..to : s[k] = "\n"

At(s, i, c) == i >= 1 /\ i <= Len(s) /\ s[i] = c

Min(a, b) == IF a <= b THEN a ELSE b

Least(S) == CHOOSE x \in S : \A y \in S : x <= y
Greatest(S) == CHOOSE x \in S : \A y \in S : x >= y

\* Where the match of the rule's expression that starts at position i ends;
\* 0 if the expression does not match there.
MatchEnd(rule, s, i) ==
    CASE rule = "header" ->    \* /#{1,6}\s+/
            LET h == RunLength(s, i, {"#"})
                w == RunLength(s, i + h, Whitespace)
            IN  IF h >= 1 /\ h <= 6 /\ w >= 1 THEN i + h + w - 1 ELSE 0
      [] rule = "bold" ->      \* /\*\*(.*?)\*\*/
            LET ends == {j \in (i + 2)..(Len(s) - 1) :
                            /\ s[j] = "*" /\ s[j + 1] = "*"
                            /\ ~HasNewline(s, i + 2, j - 1)}
            IN  IF At(s, i, "*") /\ At(s, i + 1, "*") /\ ends # {}
                THEN Least(ends) + 1 ELSE 0
      [] rule \in {"italic", "code"} ->    \* /\*(.*?)\*/ and /`(.*?)`/
            LET mark == IF rule = "italic" THEN "*" ELSE Backtick
                ends == {j \in (i + 1)..Len(s) :
                            s[j] = mark /\ ~HasNewline(s, i + 1, j - 1)}
            IN  IF At(s, i, mark) /\ ends # {} THEN Least(ends) ELSE 0
      [] rule = "fence" ->     \* /```[\s\S]*?```/
            LET ends == {j \in (i + 3)..(Len(s) - 2) :
                            s[j] = Backtick /\ s[j + 1] = Backtick /\ s[j + 2] = Backtick}
            IN  IF /\ At(s, i, Backtick) /\ At(s, i + 1, Backtick)
                   /\ At(s, i + 2, Backtick) /\ ends # {}
                THEN Least(ends) + 2 ELSE 0
      [] rule = "link" ->      \* /\[([^\]]+)\]\([^)]+\)/
            LET k == i + 1 + RunLength(s, i + 1, TextChars \ {"]"})
                m == k + 2 + RunLength(s, k + 2, TextChars \ {")"})
            IN  IF /\ At(s, i, "[") /\ k >= i + 2 /\ At(s, k, "]")
                   /\ At(s, k + 1, "(") /\ m >= k + 3 /\ At(s, m, ")")
                THEN m ELSE 0
      [] rule = "paragraph" -> \* /\n\s*\n/
            LET w == RunLength(s, i + 1, Whitespace)
                ends == {j \in (i + 1)..(i + w) : s[j] = "\n"}
            IN  IF At(s, i, "\n") /\ ends # {} THEN Greatest(ends) ELSE 0
      [] rule = "space" ->     \* /\s+/
            LET w == RunLength(s, i, Whitespace)
            IN  IF w >= 1 THEN i + w - 1 ELSE 0

\* What replaces the match s[i..e] of the rule.
Replacement(rule, s, i, e) ==
    CASE rule \in {"header", "fence"} -> <<>>
      [] rule = "bold" -> SubSeq(s, i + 2, e - 2)
      [] rule \in {"italic", "code"} -> SubSeq(s, i + 1, e - 1)
      [] rule = "link" -> SubSeq(s, i + 1, i + RunLength(s, i + 1, TextChars \ {"]"}))
      [] rule \in {"paragraph", "space"} -> <<" ">>

\* s.replace(expression, replacement), from position i on.  The end of the
\* match at i is found once, then the scan goes on behind it.
RECURSIVE ReplaceFrom(_, _, _)
ReplaceFrom(rule, s, i) ==
    IF i > Len(s) THEN <<>>
    ELSE CHOOSE r \in
            {IF e = 0
             THEN <<s[i]>> \o ReplaceFrom(rule, s, i + 1)
             ELSE Replacement(rule, s, i, e) \o ReplaceFrom(rule, s, e + 1)
                : e \in {MatchEnd(rule, s, i)}} : TRUE

Replace(rule, s) == ReplaceFrom(rule, s, 1)

\* content with the markdown removed and the whitespace normalised: each
\* replace works on the result of the one before it.
PlainText(content) ==
    LET a == {Replace("header", t) : t \in {content}}
        b == {Replace("bold", t) : t \in a}
        c == {Replace("italic", t) : t \in b}
        d == {Replace("code", t) : t \in c}
        e == {Replace("fence", t) : t \in d}
        f == {Replace("link", t) : t \in e}
        g == {Replace("paragraph", t) : t \in f}
        h == {Replace("space", t) : t \in g}
    IN  CHOOSE plainText \in {TrimRight(TrimLeft(t)) : t \in h} : TRUE

\* truncated.lastIndexOf(' '), counted from 1; 0 if there is no space.
LastSpace(t) ==
    LET at == {k \in 1..Len(t) : t[k] = " "}
    IN  IF at = {} THEN 0 ELSE Greatest(at)

Ellipsis == <<".", ".", ".">>

\* As Truncate, but marking every excerpt with the ellipsis.
TruncateMarkingAll(plainText, length) ==
    SubSeq(plainText, 1, Min(length, Len(plainText))) \o Ellipsis

\* The cut of the plain text at `length`.
Truncate(plainText, length) ==
    LET truncated == SubSeq(plainText, 1, length)
        lastSpaceIndex == LastSpace(truncated) - 1
    IN  IF Len(plainText) <= length THEN plainText
        ELSE IF 10 * lastSpaceIndex > length * 8
             THEN SubSeq(truncated, 1, lastSpaceIndex) \o Ellipsis
             ELSE truncated \o Ellipsis

extractExcerpt(content, length) ==
    CHOOSE excerpt \in {Truncate(plainText, length) :
                            plainText \in {PlainText(content)}} : TRUE

\* content.trim().split(/\s+/).length: the pieces between runs of
\* whitespace; the empty text splits into one empty piece.
WordCount(content) ==
    LET t == TrimRight(TrimLeft(content))
    IN  1 + Cardinality({k \in 2..Len(t) : IsSpace(t[k]) /\ ~IsSpace(t[k - 1])})

wordsPerMinute == 200

\* As calculateReadingTime, but rounding down and adding a minute.
calculateReadingTimeRoundingDown(content) ==
    WordCount(content) \div wordsPerMinute + 1

\* Math.ceil(words / wordsPerMinute)
calculateReadingTime(content) ==
    (WordCount(content) + wordsPerMinute - 1) \div wordsPerMinute

\* this.config
articlesPerPage == 10
excerptLength == 200

(***************************************************************************)
(* Documents of the document source.  status is what fetch and the         *)
(* frontmatter parser make of the document: "ok", "unreachable" (fetch     *)
(* rejects or answers not-ok) or "malformed" (matter throws).              *)
(***************************************************************************)
Document(status, title, date, author, slug, tags, summary) ==
    [status |-> status, title |-> title, date |-> date, author |-> author,
     slug |-> slug, tags |-> tags, summary |-> summary, body |-> <<"b">>]

\* The document with another markdown body.
WithBody(doc, body) == [doc EXCEPT !.body = body]

\* data.tags: an array of labels, or a value that is no array.
TagArray(v) == [isArray |-> TRUE, value |-> v]
NoTagArray == [isArray |-> FALSE, value |-> <<"a", "b">>]

\* As loadSingleArticle, but the author is not required.
loadSingleArticleAnyAuthor(filename, doc) ==
    IF doc.status # "ok" \/ doc.title = <<>> \/ doc.date = "" THEN <<>>
    ELSE << [metadata |->
                [title |-> doc.title, date |-> doc.date,
                 tags |-> IF doc.tags.isArray THEN doc.tags.value ELSE <<>>,
                 summary |-> doc.summary, author |-> doc.author,
                 slug |-> IF doc.slug # <<>> THEN doc.slug ELSE generateSlug(doc.title)],
             content |-> doc.body,
             excerpt |-> extractExcerpt(doc.body, excerptLength),
             readingTime |-> calculateReadingTime(doc.body),
             filename |-> filename,
             path |-> <<"/article/">> \o
                      (IF doc.slug # <<>> THEN doc.slug ELSE generateSlug(doc.title))] >>

\* As loadSingleArticle, but a declared slug is ignored.
loadSingleArticleDerivedSlug(filename, doc) ==
    IF doc.status # "ok" \/ doc.title = <<>> \/ doc.date = "" \/ doc.author = ""
    THEN <<>>
    ELSE << [metadata |->
                [title |-> doc.title, date |-> doc.date,
                 tags |-> IF doc.tags.isArray THEN doc.tags.value ELSE <<>>,
                 summary |-> doc.summary, author |-> doc.author,
                 slug |-> generateSlug(doc.title)],
             content |-> doc.body,
             excerpt |-> extractExcerpt(doc.body, excerptLength),
             readingTime |-> calculateReadingTime(doc.body),
             filename |-> filename,
             path |-> <<"/article/">> \o generateSlug(doc.title)] >>

\* loadSingleArticle(filename), given what the document source holds.
\* The result is the article, or nothing (null).
loadSingleArticle(filename, doc) ==
    IF doc.status # "ok" THEN <<>>
    ELSE IF doc.title = <<>> \/ doc.date = "" \/ doc.author = "" THEN <<>>
    ELSE LET slug == IF doc.slug # <<>> THEN doc.slug ELSE generateSlug(doc.title)
         IN  << [metadata |->
                    [title |-> doc.title,
                     date |-> doc.date,
                     tags |-> IF doc.tags.isArray THEN doc.tags.value ELSE <<>>,
                     summary |-> doc.summary,
                     author |-> doc.author,
                     slug |-> slug],
                 content |-> doc.body,
                 excerpt |-> extractExcerpt(doc.body, excerptLength),
                 readingTime |-> calculateReadingTime(doc.body),
                 filename |-> filename,
                 path |-> <<"/article/">> \o slug] >>

(***************************************************************************)
(* The documents the document source may hold for a file.                  *)
(***************************************************************************)
Author == "Alberto Ferrer"

\* Newest article; no declared slug, so the slug is derived: "a".
DocNewest ==
    Document("ok", <<"A">>, "2024-01-20", Author, <<>>, TagArray(<< <<"a", "b">> >>),
             <<"a">>)
\* Oldest article; declares the slug "a".
DocOldest ==
    Document("ok", <<"b">>, "2022-09-22", Author, <<"a">>, TagArray(<<>>), <<>>)
DocMiddle ==
    Document("ok", <<"b", " ", "A">>, "2023-11-08", Author, <<>>, NoTagArray, <<>>)
\* A date that is present but is no date.
DocBadDate ==
    Document("ok", <<"b">>, "TBD", Author, <<"b">>, TagArray(<<>>), <<>>)
DocNoAuthor ==
    Document("ok", <<"A">>, "2024-01-20", "", <<>>, TagArray(<<>>), <<>>)
DocMalformed ==
    Document("malformed", <<>>, "", "", <<>>, TagArray(<<>>), <<>>)
DocUnreachable ==
    Document("unreachable", <<>>, "", "", <<>>, TagArray(<<>>), <<>>)

Corpus ==
    {DocNewest, DocOldest, DocMiddle, DocBadDate, DocNoAuthor, DocMalformed,
     DocUnreachable}

(***************************************************************************)
(* State.                                                                  *)
(***************************************************************************)
\* useState(1000): the index of the first article tab.
FirstArticleIndex == 1000

\* The routes, and the route of an article.
HomePath == <<"/">>
ArticlePath(slug) == <<"/article/", slug>>

\* App before it is mounted: no article tab, nothing selected, no lookup
\* pending.  Of the open pages only the article pages are kept; the static
\* pages of ../pages/pages are no article pages.
AppUnmounted ==
    [mounted |-> FALSE, pathname |-> HomePath, articlePages |-> <<>>,
     visiblePageIndexs |-> <<>>, selectedIndex |-> -1,
     nextArticleIndex |-> FirstArticleIndex,
     lookups |-> [p \in Procs |-> <<>>]]

\* BlogIndex before it is mounted, without parameters in the URL.
BlogIndexUnmounted ==
    [mounted |-> FALSE, searchQuery |-> <<>>, selectedTag |-> <<>>,
     sortBy |-> "date", sortOrder |-> "desc", currentPage |-> 1,
     searchResult |-> <<>>, allTags |-> <<>>, loading |-> TRUE,
     requests |-> [p \in Procs |-> <<>>]]

VARIABLES
    docs,       \* document source: what each file holds now
    edits,      \* how often the document source has changed
    articles,   \* this.articles
    gen,        \* the call whose load pass assigned this.articles (0: none)
    kind,       \* per call: "none", "ctor", "get" or "reload"
    pc,         \* per call: "idle", "files", "fetch", "done" or "returned"
    idx,        \* per call: files whose fetch the pass has issued
    acc,        \* per call: loadedArticles
    ret,        \* per call: the array getArticles resolved with
    snap,       \* per call: the index a reload replaced (see getArticles)
    outcome,    \* per call: how the promise of loadArticles settled
    params,     \* the last call of a reader: its name and its arguments
    result,     \* what that call resolved with
    app,        \* the state of the App component and its pending lookups
    blogIndex   \* the state of the BlogIndex component and its requests

vars ==
    <<docs, edits, articles, gen, kind, pc, idx, acc, ret, snap, outcome,
      params, result, app, blogIndex>>

\* The state after `new ArticlesService()`: the constructor has called
\* loadArticles(), which runs up to `await this.getArticleFiles()`.
Constructed(sources) ==
    /\ docs \in sources
    /\ edits = 0
    /\ articles = <<>>
    /\ gen = 0
    /\ kind = [p \in Procs |-> IF p = 1 THEN "ctor" ELSE "none"]
    /\ pc = [p \in Procs |-> IF p = 1 THEN "files" ELSE "idle"]
    /\ idx = [p \in Procs |-> 0]
    /\ acc = [p \in Procs |-> <<>>]
    /\ ret = [p \in Procs |-> <<>>]
    /\ snap = [p \in Procs |-> <<>>]
    /\ outcome = [p \in Procs |-> "pending"]
    /\ params = [op |-> "none"]
    /\ result = <<>>
    /\ app = AppUnmounted
    /\ blogIndex = BlogIndexUnmounted

\* Concurrent calls are explored over a document source that holds, per
\* file, a newer article, an older one, or nothing it can deliver.
Init == Constructed([Files -> {DocNewest, DocOldest, DocUnreachable}])

\* Calls take the slots in order.
IsFree(p) == pc[p] = "idle" /\ \A q \in Procs : q < p => pc[q] # "idle"

\* A reloadArticles() call whose load pass is still running.
ReloadInFlight(q) == kind[q] = "reload" /\ pc[q] \in {"files", "fetch"}

\* The index as it was before the reload that is running, when exactly one
\* is running; empty otherwise.
PreReloadIndex ==
    IF Cardinality({q \in Procs : ReloadInFlight(q)}) = 1
    THEN snap[CHOOSE q \in Procs : ReloadInFlight(q)]
    ELSE <<>>

\* How often the file has been fetched.
Fetched(f) == Cardinality({p \in Procs : idx[p] >= f})

(***************************************************************************)
(* getArticles(), up to its await or its return.                           *)
(***************************************************************************)
getArticles(p) ==
    /\ IsFree(p)
    /\ kind' = [kind EXCEPT ![p] = "get"]
    /\ snap' = [snap EXCEPT ![p] = PreReloadIndex]
    /\ IF Len(articles) = 0
       THEN /\ pc' = [pc EXCEPT ![p] = "files"]
            /\ UNCHANGED ret
       ELSE /\ pc' = [pc EXCEPT ![p] = "returned"]
            /\ ret' = [ret EXCEPT ![p] = articles]
    /\ UNCHANGED <<docs, edits, articles, gen, idx, acc, outcome>>
    /\ UNCHANGED <<params, result, app, blogIndex>>

(***************************************************************************)
(* reloadArticles(), up to its await.                                      *)
(***************************************************************************)
reloadArticles(p) ==
    /\ IsFree(p)
    /\ kind' = [kind EXCEPT ![p] = "reload"]
    /\ snap' = [snap EXCEPT ![p] = articles]
    /\ articles' = <<>>
    /\ gen' = 0
    /\ pc' = [pc EXCEPT ![p] = "files"]
    /\ UNCHANGED <<docs, edits, idx, acc, ret, outcome>>
    /\ UNCHANGED <<params, result, app, blogIndex>>

(***************************************************************************)
(* loadArticles(): the list of files arrives, the loop starts and          *)
(* loadSingleArticle issues the fetch of the first file.                   *)
(***************************************************************************)
loadArticlesBegin(p) ==
    /\ pc[p] = "files"
    /\ pc' = [pc EXCEPT ![p] = "fetch"]
    /\ idx' = [idx EXCEPT ![p] = 1]
    /\ acc' = [acc EXCEPT ![p] = <<>>]
    /\ UNCHANGED <<docs, edits, articles, gen, kind, ret, snap, outcome>>
    /\ UNCHANGED <<params, result, app, blogIndex>>

\* As IndexAfterFile, but every accepted article is published at once.
IndexAfterFilePublishing(loadedArticles, last) ==
    SortByDate(loadedArticles)

\* As IndexAfterFile, but the pass adds its articles to those of the index.
IndexAfterFileAppending(loadedArticles, last) ==
    IF last THEN articles \o SortByDate(loadedArticles) ELSE articles

\* this.articles after the pass has dealt with a file: assigned once, after
\* the last file.
IndexAfterFile(loadedArticles, last) ==
    IF last THEN SortByDate(loadedArticles) ELSE articles

(***************************************************************************)
(* loadArticles(): loadSingleArticle resolves.  The article, if any, is    *)
(* pushed; then either the next file is fetched, or the sorted list is     *)
(* assigned to this.articles and the pass returns.  A pass never throws:   *)
(* loadSingleArticle catches every error and getArticleFiles cannot fail.  *)
(***************************************************************************)
loadArticlesStep(p) ==
    /\ pc[p] = "fetch"
    /\ LET f == idx[p]
           last == f = NumFiles
           loadedArticles == acc[p] \o loadSingleArticle(getArticleFiles[f], docs[f])
       IN  /\ acc' = [acc EXCEPT ![p] = loadedArticles]
           /\ articles' = IndexAfterFile(loadedArticles, last)
           /\ gen' = IF last THEN p ELSE gen
           /\ idx' = [idx EXCEPT ![p] = IF last THEN f ELSE f + 1]
           /\ pc' = [pc EXCEPT ![p] = IF last THEN "done" ELSE "fetch"]
           /\ outcome' = [outcome EXCEPT ![p] = IF last THEN "fulfilled" ELSE @]
    /\ UNCHANGED <<docs, edits, kind, ret, snap>>
    /\ UNCHANGED <<params, result, app, blogIndex>>

(***************************************************************************)
(* getArticles() and reloadArticles() after `await this.loadArticles()`.   *)
(***************************************************************************)
getArticlesReturn(p) ==
    /\ kind[p] = "get"
    /\ pc[p] = "done"
    /\ pc' = [pc EXCEPT ![p] = "returned"]
    /\ ret' = [ret EXCEPT ![p] = articles]
    /\ UNCHANGED <<docs, edits, articles, gen, kind, idx, acc, snap, outcome>>
    /\ UNCHANGED <<params, result, app, blogIndex>>

reloadArticlesReturn(p) ==
    /\ kind[p] = "reload"
    /\ pc[p] = "done"
    /\ pc' = [pc EXCEPT ![p] = "returned"]
    /\ UNCHANGED <<docs, edits, articles, gen, kind, idx, acc, ret, snap, outcome>>
    /\ UNCHANGED <<params, result, app, blogIndex>>

(***************************************************************************)
(* The document source: a file is changed, removed or restored.            *)
(***************************************************************************)
EditDocument(f, d) ==
    /\ edits < MaxEdits
    /\ d # docs[f]
    /\ docs' = [docs EXCEPT ![f] = d]
    /\ edits' = edits + 1
    /\ UNCHANGED <<articles, gen, kind, pc, idx, acc, ret, snap, outcome>>
    /\ UNCHANGED <<params, result, app, blogIndex>>

Next ==
    \/ \E p \in Callers : getArticles(p)
    \/ \E p \in Callers : reloadArticles(p)
    \/ \E p \in Procs : loadArticlesBegin(p)
    \/ \E p \in Procs : loadArticlesStep(p)
    \/ \E p \in Procs : getArticlesReturn(p)
    \/ \E p \in Procs : reloadArticlesReturn(p)

\* The service over a document source that does not change.
Spec == Init /\ [][Next]_vars

\* The service over a document source whose documents change meanwhile.
NextEdit ==
    \/ Next
    \/ \E f \in Files, d \in {DocNewest, DocOldest, DocUnreachable} : EditDocument(f, d)

SpecEdit == Init /\ [][NextEdit]_vars

\* One load pass (the constructor's) over every document set of the corpus.
InitLoad == Constructed([Files -> Corpus])

NextLoad == loadArticlesBegin(1) \/ loadArticlesStep(1)

SpecLoad == InitLoad /\ [][NextLoad]_vars

(***************************************************************************)
(* One document: the constructor's load pass over a document source whose  *)
(* first file holds any document of DocumentSpace and whose other files    *)
(* cannot be delivered.                                                    *)
(***************************************************************************)
Titles == UNION {[1..n -> TitleChars] : n \in 0..MaxTitleLen}

DocumentSpace ==
    {Document("ok", t, d, a, s, g, m) :
        t \in Titles, d \in {"", "2024-01-20", "TBD"}, a \in {"", Author},
        s \in {<<>>, <<"m", "y">>},
        g \in {TagArray(<<>>), TagArray(<< <<"a", "b">>, <<"b">> >>), NoTagArray},
        m \in {<<>>, <<"a">>}}
    \cup {DocMalformed, DocUnreachable}

InitDoc ==
    Constructed({[f \in Files |-> IF f = 1 THEN d ELSE DocUnreachable] :
                    d \in DocumentSpace})

SpecDoc == InitDoc /\ [][NextLoad]_vars

(***************************************************************************)
(* The readers: searchArticles, getAllTags and getArticleNavigation.  Each *)
(* awaits getArticles() and then works on the array it resolved with.      *)
(***************************************************************************)
\* Most articles and highest page number of the pagination specification.
MaxArticles == 11
MaxPage == 3

\* The name of the f-th file of the articles directory: the configured
\* names first, then those a scan of the directory would add.
FileName(f) ==
    IF f <= Len(ArticleFiles) THEN ArticleFiles[f]
    ELSE "article-" \o ToString(f) \o ".md"

\* loadedArticles after the loop of loadArticles over the first n files.
RECURSIVE LoadedArticles(_, _)
LoadedArticles(sources, n) ==
    IF n = 0 THEN <<>>
    ELSE LoadedArticles(sources, n - 1) \o loadSingleArticle(FileName(n), sources[n])

\* this.articles after a load pass over the document source.
LoadedIndex(sources) == SortByDate(LoadedArticles(sources, Len(sources)))

\* As getArticlesResolved, but loading anew on every call.
getArticlesResolvedReloading == LoadedIndex(docs)

\* What `await this.getArticles()` resolves with when no other call runs:
\* the index, loaded first if it is empty.
getArticlesResolved == IF Len(articles) = 0 THEN LoadedIndex(docs) ELSE articles

\* getArticlesList: the articles without their content.
getArticlesList(list) ==
    [i \in 1..Len(list) |->
        [metadata |-> list[i].metadata, excerpt |-> list[i].excerpt,
         readingTime |-> list[i].readingTime, filename |-> list[i].filename,
         path |-> list[i].path]]

\* String.prototype.toLowerCase and String.prototype.includes
Lower(s) == [i \in 1..Len(s) |-> toLowerCase(s[i])]

Includes(s, q) == \E i \in 0..(Len(s) - Len(q)) : SubSeq(s, i + 1, i + Len(q)) = q

\* As MatchesQuery, but the excerpt is not searched.
MatchesQueryNoExcerpt(article, q) ==
    \/ Includes(Lower(article.metadata.title), Lower(q))
    \/ Includes(Lower(article.metadata.summary), Lower(q))
    \/ \E k \in 1..Len(article.metadata.tags) :
            Includes(Lower(article.metadata.tags[k]), Lower(q))

\* The predicate of the query filter.
MatchesQuery(article, q) ==
    LET query == Lower(q)
    IN  \/ Includes(Lower(article.metadata.title), query)
        \/ Includes(Lower(article.metadata.summary), query)
        \/ \E k \in 1..Len(article.metadata.tags) :
                Includes(Lower(article.metadata.tags[k]), query)
        \/ Includes(Lower(article.excerpt), query)

\* if (params.query) ...: the empty string is falsy.
QueryFilter(list, sp) ==
    IF sp.query # <<>>
    THEN SelectSeq(list, LAMBDA a : MatchesQuery(a, sp.query))
    ELSE list

\* As HasTag, but a tag that only contains the asked one counts too.
HasTagContaining(article, tag) ==
    \E k \in 1..Len(article.metadata.tags) : Includes(article.metadata.tags[k], tag)

\* article.metadata.tags.includes(params.tag)
HasTag(article, tag) ==
    \E k \in 1..Len(article.metadata.tags) : article.metadata.tags[k] = tag

\* if (params.tag) ...
TagFilter(list, sp) ==
    IF sp.tag # <<>>
    THEN SelectSeq(list, LAMBDA a : HasTag(a, sp.tag))
    ELSE list

\* String.prototype.localeCompare on the characters of the model: letters
\* after punctuation after the space; case decides only between texts that
\* are otherwise equal, lower case first.
CollationKey(c) ==
    CASE c \in Whitespace -> 1
      [] c = "-" -> 2
      [] c = "!" -> 3
      [] c \in {"a", "A"} -> 5
      [] c = "b" -> 6
      [] OTHER -> 4

CaseKey(c) == IF c = "A" THEN 1 ELSE 0

\* -1, 0 or 1 as the sequence of numbers x is before, equal to or after y.
LexCompare(x, y) ==
    LET diff == {i \in 1..Min(Len(x), Len(y)) : x[i] # y[i]}
    IN  IF diff # {}
        THEN (IF x[Least(diff)] < y[Least(diff)] THEN -1 ELSE 1)
        ELSE IF Len(x) < Len(y) THEN -1
        ELSE IF Len(x) > Len(y) THEN 1
        ELSE 0

localeCompare(a, b) ==
    LET primary == LexCompare([i \in 1..Len(a) |-> CollationKey(a[i])],
                              [i \in 1..Len(b) |-> CollationKey(b[i])])
    IN  IF primary # 0 THEN primary
        ELSE LexCompare([i \in 1..Len(a) |-> CaseKey(a[i])],
                        [i \in 1..Len(b) |-> CaseKey(b[i])])

\* The comparator of the sort of searchArticles.  A NaN is taken as +0.
SearchCompare(a, b, sp) ==
    LET sortBy == IF sp.sortBy = "" THEN "date" ELSE sp.sortBy
        sortOrder == IF sp.sortOrder = "" THEN "desc" ELSE sp.sortOrder
        comparison ==
            IF sortBy = "date"
            THEN (IF IsNaNDate(a.metadata.date) \/ IsNaNDate(b.metadata.date)
                  THEN 0
                  ELSE getTime(a.metadata.date) - getTime(b.metadata.date))
            ELSE IF sortBy = "title"
            THEN localeCompare(a.metadata.title, b.metadata.title)
            ELSE 0
    IN  IF sortOrder = "desc" THEN 0 - comparison ELSE comparison

\* articles.sort(comparator): stable.
SearchInsert(s, x, sp) ==
    LET n == Len(s)
        k == CHOOSE i \in 0..n :
                /\ \A j \in (i + 1)..n : SearchCompare(s[j], x, sp) > 0
                /\ (i = 0 \/ SearchCompare(s[i], x, sp) <= 0)
    IN  SubSeq(s, 1, k) \o <<x>> \o SubSeq(s, k + 1, n)

RECURSIVE SearchSortPrefix(_, _, _)
SearchSortPrefix(s, n, sp) ==
    IF n = 0 THEN <<>>
    ELSE CHOOSE r \in {SearchInsert(sorted, s[n], sp) :
                        sorted \in {SearchSortPrefix(s, n - 1, sp)}} : TRUE

SearchSort(list, sp) == SearchSortPrefix(list, Len(list), sp)

\* const page = params.page || 1: no page and page 0 are page 1.
PageOf(sp) == IF sp.page = 0 THEN 1 ELSE sp.page

\* As TotalPages, but counting a page too many when the last one is full.
TotalPagesRoundingUp(totalCount) == totalCount \div articlesPerPage + 1

\* Math.ceil(totalCount / articlesPerPage)
TotalPages(totalCount) == (totalCount + articlesPerPage - 1) \div articlesPerPage

\* As Slice, but the page ends one article late.
SliceInclusive(list, page) ==
    SubSeq(list, (page - 1) * articlesPerPage + 1,
           Min(page * articlesPerPage + 1, Len(list)))

\* articles.slice(startIndex, endIndex)
Slice(list, page) ==
    LET startIndex == (page - 1) * articlesPerPage
        endIndex == startIndex + articlesPerPage
    IN  SubSeq(list, startIndex + 1, Min(endIndex, Len(list)))

\* As HasPreviousPage, but counting from page 0.
HasPreviousPageFromZero(page) == page > 0

HasPreviousPage(page) == page > 1

\* The pagination and the result of searchArticles.
Paginate(list, sp) ==
    LET page == PageOf(sp)
        totalCount == Len(list)
        totalPages == TotalPages(totalCount)
    IN  [articles |-> Slice(list, page),
         totalCount |-> totalCount,
         currentPage |-> page,
         totalPages |-> totalPages,
         hasNextPage |-> page < totalPages,
         hasPreviousPage |-> HasPreviousPage(page)]

\* The filtered and sorted list of searchArticles, before the pagination.
FilteredSorted(list, sp) ==
    LET byQuery == {QueryFilter(l, sp) : l \in {getArticlesList(list)}}
        byTag == {TagFilter(l, sp) : l \in byQuery}
    IN  CHOOSE sorted \in {SearchSort(l, sp) : l \in byTag} : TRUE

\* What searchArticles(params) resolves with on the array of getArticles().
SearchResult(list, sp) ==
    CHOOSE r \in {Paginate(l, sp) : l \in {FilteredSorted(list, sp)}} : TRUE

\* The tags of the articles in the order the two forEach loops visit them.
RECURSIVE TagOccurrences(_, _)
TagOccurrences(list, n) ==
    IF n = 0 THEN <<>>
    ELSE TagOccurrences(list, n - 1) \o list[n].metadata.tags

\* tagCounts.set(tag, (tagCounts.get(tag) || 0) + 1).  A Map keeps its keys
\* in the order of their first insertion.
SetTagCount(tagCounts, tag) ==
    IF \E k \in 1..Len(tagCounts) : tagCounts[k].tag = tag
    THEN [k \in 1..Len(tagCounts) |->
            IF tagCounts[k].tag = tag
            THEN [tag |-> tag, count |-> tagCounts[k].count + 1]
            ELSE tagCounts[k]]
    ELSE Append(tagCounts, [tag |-> tag, count |-> 1])

\* tagCounts after the first n tags visited.
RECURSIVE TagCounts(_, _)
TagCounts(occurrences, n) ==
    IF n = 0 THEN <<>>
    ELSE CHOOSE r \in {SetTagCount(m, occurrences[n]) :
                        m \in {TagCounts(occurrences, n - 1)}} : TRUE

\* As TagCompare, but the other way round.
TagCompareAscending(a, b) == a.count - b.count

\* The comparator of the sort of getAllTags.
TagCompare(a, b) == b.count - a.count

\* .sort(comparator): stable.
TagInsert(s, x) ==
    LET n == Len(s)
        k == CHOOSE i \in 0..n :
                /\ \A j \in (i + 1)..n : TagCompare(s[j], x) > 0
                /\ (i = 0 \/ TagCompare(s[i], x) <= 0)
    IN  SubSeq(s, 1, k) \o <<x>> \o SubSeq(s, k + 1, n)

RECURSIVE TagSortPrefix(_, _)
TagSortPrefix(s, n) ==
    IF n = 0 THEN <<>>
    ELSE CHOOSE r \in {TagInsert(sorted, s[n]) :
                        sorted \in {TagSortPrefix(s, n - 1)}} : TRUE

\* What getAllTags() resolves with on the array of getArticles().
AllTags(list) ==
    CHOOSE r \in
        {TagSortPrefix(m, Len(m)) :
            m \in {TagCounts(o, Len(o)) : o \in {TagOccurrences(list, Len(list))}}} : TRUE

\* articles.findIndex(...), counted from 1; 0 if no article has the slug.
findIndex(list, slug) ==
    LET at == {i \in 1..Len(list) : list[i].metadata.slug = slug}
    IN  IF at = {} THEN 0 ELSE Least(at)

\* {title, slug} of an article, in a sequence; the empty sequence is
\* `undefined`.
NavigationLink(article) ==
    << [title |-> article.metadata.title, slug |-> article.metadata.slug] >>

\* What getArticleNavigation(currentSlug) resolves with on the array of
\* getArticles().
Navigation(list, currentSlug) ==
    LET currentIndex == findIndex(list, currentSlug)
    IN  IF currentIndex = 0 THEN [previous |-> <<>>, next |-> <<>>]
        ELSE [previous |-> IF currentIndex > 1
                           THEN NavigationLink(list[currentIndex - 1]) ELSE <<>>,
              next |-> IF currentIndex < Len(list)
                       THEN NavigationLink(list[currentIndex + 1]) ELSE <<>>]

(***************************************************************************)
(* The reader calls, made on a service that no other call is using.        *)
(***************************************************************************)
\* articles.find(...) || null: the article in a sequence; the empty
\* sequence is null.
find(list, slug) ==
    LET currentIndex == findIndex(list, slug)
    IN  IF currentIndex = 0 THEN <<>> ELSE <<list[currentIndex]>>

\* articles.slice(0, limit) of getRecentArticles
RecentArticles(list, limit) ==
    SubSeq(getArticlesList(list), 1, Min(limit, Len(list)))

getArticlesListCall ==
    /\ articles' = getArticlesResolved
    /\ params' = [op |-> "getArticlesList"]
    /\ result' = getArticlesList(articles')
    /\ UNCHANGED <<docs, edits, gen, kind, pc, idx, acc, ret, snap, outcome, app, blogIndex>>

getArticleBySlug(slug) ==
    /\ articles' = getArticlesResolved
    /\ params' = [op |-> "getArticleBySlug", slug |-> slug]
    /\ result' = find(articles', slug)
    /\ UNCHANGED <<docs, edits, gen, kind, pc, idx, acc, ret, snap, outcome, app, blogIndex>>

getRecentArticles(limit) ==
    /\ articles' = getArticlesResolved
    /\ params' = [op |-> "getRecentArticles", limit |-> limit]
    /\ result' = RecentArticles(articles', limit)
    /\ UNCHANGED <<docs, edits, gen, kind, pc, idx, acc, ret, snap, outcome, app, blogIndex>>

searchArticles(sp) ==
    /\ articles' = getArticlesResolved
    /\ params' = sp
    /\ result' = SearchResult(articles', sp)
    /\ UNCHANGED <<docs, edits, gen, kind, pc, idx, acc, ret, snap, outcome, app, blogIndex>>

getAllTags ==
    /\ articles' = getArticlesResolved
    /\ params' = [op |-> "getAllTags"]
    /\ result' = AllTags(articles')
    /\ UNCHANGED <<docs, edits, gen, kind, pc, idx, acc, ret, snap, outcome, app, blogIndex>>

getArticleNavigation(currentSlug) ==
    /\ articles' = getArticlesResolved
    /\ params' = [op |-> "getArticleNavigation", currentSlug |-> currentSlug]
    /\ result' = Navigation(articles', currentSlug)
    /\ UNCHANGED <<docs, edits, gen, kind, pc, idx, acc, ret, snap, outcome, app, blogIndex>>

\* The state after the constructor's load pass has run to its end.
Served(sources) ==
    /\ docs \in sources
    /\ edits = 0
    /\ articles = LoadedIndex(docs)
    /\ gen = 1
    /\ kind = [p \in Procs |-> IF p = 1 THEN "ctor" ELSE "none"]
    /\ pc = [p \in Procs |-> IF p = 1 THEN "done" ELSE "idle"]
    /\ idx = [p \in Procs |-> IF p = 1 THEN Len(docs) ELSE 0]
    /\ acc = [p \in Procs |-> IF p = 1 THEN LoadedArticles(docs, Len(docs)) ELSE <<>>]
    /\ ret = [p \in Procs |-> <<>>]
    /\ snap = [p \in Procs |-> <<>>]
    /\ outcome = [p \in Procs |-> IF p = 1 THEN "fulfilled" ELSE "pending"]
    /\ params = [op |-> "none"]
    /\ result = <<>>
    /\ app = AppUnmounted
    /\ blogIndex = BlogIndexUnmounted

SortKeys == {"", "date", "title"}
SortOrders == {"", "asc", "desc"}

\* ArticleSearchParams; an absent text is the empty one, an absent page 0.
SearchParams(queries, tags) ==
    [op : {"searchArticles"}, query : queries, tag : tags,
     sortBy : SortKeys, sortOrder : SortOrders, page : 0..MaxPage]

\* An article with markdown in its body, a tag it lists twice and a tag in
\* upper case; its excerpt is "A b", its derived slug "b".
DocMarkdown ==
    WithBody(Document("ok", <<"b">>, "2023-11-08", Author, <<>>,
                      TagArray(<< <<"b">>, <<"A">>, <<"b">> >>), <<>>),
             <<"*", "A", "*", " ", "\n", "b">>)

ReadCorpus ==
    {DocNewest, DocOldest, DocMiddle, DocBadDate, DocMarkdown, DocUnreachable}

ReadQueries == {<<>>, <<" ">>, <<"A">>, <<"A", " ">>, <<"a", "b">>}
ReadTags == {<<>>, <<"a">>, <<"A">>, <<"b">>}
ReadSlugs == {<<"a">>, <<"b">>, <<"b", "-", "a">>, <<"A">>}

InitRead == Served([Files -> ReadCorpus])

\* No reader has been called yet.  A reader leaves the service as it found
\* it, so these specifications follow the first reader call only.
FirstCall == params.op = "none"

NextRead ==
    \/ FirstCall /\ \E sp \in SearchParams(ReadQueries, ReadTags) : searchArticles(sp)
    \/ FirstCall /\ getAllTags
    \/ FirstCall /\ \E currentSlug \in ReadSlugs : getArticleNavigation(currentSlug)

\* The readers over every document set of ReadCorpus.
SpecRead == InitRead /\ [][NextRead]_vars

\* Document sources of up to MaxArticles files that hold the three sample
\* articles in turn.
PageSources ==
    {[f \in 1..n |-> <<DocNewest, DocMiddle, DocOldest>>[((f + k) % 3) + 1]] :
        n \in 0..MaxArticles, k \in 0..2}

InitPage == Served(PageSources)

NextPage ==
    FirstCall /\ \E sp \in SearchParams({<<>>, <<"A">>}, {<<>>, <<"a", "b">>}) :
                    searchArticles(sp)

\* searchArticles over indexes of more than one page.
SpecPage == InitPage /\ [][NextPage]_vars

(***************************************************************************)
(* Sequences of reader calls on a service whose document source changes    *)
(* between the calls.                                                      *)
(***************************************************************************)
CallParams ==
    {sp \in SearchParams({<<>>, <<"A">>}, {<<>>}) :
        /\ sp.page = 1
        /\ <<sp.query, sp.sortBy, sp.sortOrder>> \in
              {<<<<>>, "", "">>, <<<<>>, "date", "asc">>, <<<<>>, "title", "asc">>,
               <<<<"A">>, "title", "desc">>}}

CallSlugs == {<<"a">>, <<"b">>}

InitCalls == Served([Files -> {DocNewest, DocOldest, DocUnreachable}])

NextCalls ==
    \/ getArticlesListCall
    \/ \E sp \in CallParams : searchArticles(sp)
    \/ getAllTags
    \/ \E currentSlug \in CallSlugs : getArticleNavigation(currentSlug)
    \/ \E slug \in CallSlugs : getArticleBySlug(slug)
    \/ \E limit \in {1, 5} : getRecentArticles(limit)
    \/ \E f \in Files, d \in {DocNewest, DocOldest, DocUnreachable} : EditDocument(f, d)

SpecCalls == InitCalls /\ [][NextCalls]_vars

(***************************************************************************)
(* The derived fields: extractExcerpt and calculateReadingTime, applied to *)
(* bodies and lengths of their own.                                        *)
(***************************************************************************)
\* Longest body with markdown, longest body without, largest small length
\* of an excerpt, most words of a body.
MaxBodyLen == 4
MaxTextLen == 7
MaxExcerptLength == 5
MaxWords == 401

\* Bodies with markdown and bodies of words only.
MarkdownBodies == UNION {[1..n -> {"a", " ", "*", "#", "\n"}] : n \in 0..MaxBodyLen}
TextBodies == UNION {[1..n -> {"a", " "}] : n \in 0..MaxTextLen}

\* A body of n characters, all letters but for one space before which
\* there are p characters.
LongBody(p, n) == [i \in 1..n |-> IF i = p + 1 THEN " " ELSE "a"]

FourFifths == (excerptLength * 4) \div 5

\* Bodies around the configured excerpt length, with the space around four
\* fifths of it.
LongBodies ==
    {LongBody(p, n) : p \in {FourFifths - 1, FourFifths, FourFifths + 1,
                             excerptLength - 1, excerptLength},
                      n \in {excerptLength, excerptLength + 1, excerptLength + 8}}

\* A body of n words with the separator between them.
Words(n, separator) ==
    LET period == 1 + Len(separator)
    IN  [i \in 1..(IF n = 0 THEN 0 ELSE n * period - Len(separator)) |->
            IF (i - 1) % period = 0 THEN "a" ELSE separator[(i - 1) % period]]

ReadingBodies ==
    {lead \o Words(n, separator) \o trail :
        n \in 0..MaxWords, separator \in {<<" ">>, <<"\n", "\t">>},
        lead \in {<<>>, <<" ">>}, trail \in {<<>>, <<"\n">>}}

extractExcerptCall(content, length) ==
    /\ params' = [op |-> "extractExcerpt", content |-> content, length |-> length]
    /\ result' = extractExcerpt(content, length)
    /\ UNCHANGED <<docs, edits, articles, gen, kind, pc, idx, acc, ret, snap, outcome, app, blogIndex>>

calculateReadingTimeCall(content) ==
    /\ params' = [op |-> "calculateReadingTime", content |-> content]
    /\ result' = calculateReadingTime(content)
    /\ UNCHANGED <<docs, edits, articles, gen, kind, pc, idx, acc, ret, snap, outcome, app, blogIndex>>

InitDerive == Served({[f \in Files |-> DocUnreachable]})

NextDerive ==
    \/ FirstCall /\ \E content \in MarkdownBodies \cup TextBodies, length \in 0..MaxExcerptLength :
                        extractExcerptCall(content, length)
    \/ FirstCall /\ \E content \in LongBodies : extractExcerptCall(content, excerptLength)
    \/ FirstCall /\ \E content \in ReadingBodies : calculateReadingTimeCall(content)

SpecDerive == InitDerive /\ [][NextDerive]_vars

(***************************************************************************)
(* The components that call the service.  A call made while the index is   *)
(* empty runs a load pass of its own and takes a slot; a call made on a    *)
(* loaded index resolves before anything else happens.                     *)
(***************************************************************************)
\* Most article tabs that are ever opened.
MaxTabs == 2

\* The next n slots.
FreeSlots(n) ==
    LET first == Least({p \in Procs : pc[p] = "idle"} \cup {MaxCalls + 3})
    IN  first..(first + n - 1)

\* getArticles() on an empty index, once for each slot of P.
getArticlesLoading(P) ==
    /\ kind' = [q \in Procs |-> IF q \in P THEN "get" ELSE kind[q]]
    /\ pc' = [q \in Procs |-> IF q \in P THEN "files" ELSE pc[q]]
    /\ snap' = [q \in Procs |-> IF q \in P THEN PreReloadIndex ELSE snap[q]]
    /\ UNCHANGED <<docs, edits, articles, gen, idx, acc, ret, outcome, params, result>>

\* No call that reaches the document source.
ServiceIdle ==
    UNCHANGED <<docs, edits, articles, gen, kind, pc, idx, acc, ret, snap,
                outcome, params, result>>

(***************************************************************************)
(* App: the article tabs.                                                  *)
(***************************************************************************)
IsArticlePath(path) == path[1] = "/article/"
SlugOf(path) == path[2]

\* articlePages.find(page => page.articleSlug === slug), as positions
TabsOf(a, slug) ==
    {i \in 1..Len(a.articlePages) : a.articlePages[i].articleSlug = slug}

\* addArticleTab up to its return or its await: the tab exists and is
\* selected, or the article has to be looked up.
NeedsLookup(a) ==
    IsArticlePath(a.pathname) /\ TabsOf(a, SlugOf(a.pathname)) = {}

SelectExisting(a) ==
    IF IsArticlePath(a.pathname) /\ TabsOf(a, SlugOf(a.pathname)) # {}
    THEN [a EXCEPT !.selectedIndex =
            a.articlePages[Least(TabsOf(a, SlugOf(a.pathname)))].index]
    ELSE a

\* addArticleTab after its await: the call carries the slug and the
\* nextArticleIndex of the render that made it.
addArticleTabResolved(a, call, article) ==
    IF article = <<>>
    THEN a
    ELSE [a EXCEPT
            !.articlePages = Append(@, [index |-> call.index, articleSlug |-> call.slug]),
            !.visiblePageIndexs = Append(@, call.index),
            !.selectedIndex = call.index,
            !.nextArticleIndex = @ + 1]

\* The navigation effect, run `runs` times by the render that committed a:
\* each run calls addArticleTab of that render.
NavigationEffect(a, runs) ==
    IF ~NeedsLookup(a)
    THEN /\ app' = SelectExisting(a)
         /\ ServiceIdle
    ELSE LET call == [slug |-> SlugOf(a.pathname), index |-> a.nextArticleIndex]
         IN  IF Len(articles) = 0
             THEN /\ FreeSlots(runs) \subseteq Callers
                  /\ getArticlesLoading(FreeSlots(runs))
                  /\ app' = [a EXCEPT !.lookups =
                               [p \in Procs |-> IF p \in FreeSlots(runs) THEN <<call>> ELSE @[p]]]
             ELSE LET article == find(articles, call.slug)
                      once == addArticleTabResolved(a, call, article)
                      all == IF runs = 2 THEN addArticleTabResolved(once, call, article) ELSE once
                  IN  /\ app' = SelectExisting(all)
                      /\ ServiceIdle

\* root.render: App mounts on the route of the URL.  Under StrictMode the
\* development build runs the effects of a mounting component twice, the
\* production build once.
AppMount(path, runs) ==
    /\ ~app.mounted
    /\ NavigationEffect([app EXCEPT !.mounted = TRUE, !.pathname = path], runs)
    /\ app'.nextArticleIndex <= FirstArticleIndex + MaxTabs
    /\ UNCHANGED blogIndex

\* The location changes.
Navigate(path) ==
    /\ app.mounted
    /\ path # app.pathname
    /\ NavigationEffect([app EXCEPT !.pathname = path], 1)
    /\ app'.nextArticleIndex <= FirstArticleIndex + MaxTabs
    /\ UNCHANGED blogIndex

\* The lookup of call p resolves; a new tab changes addArticleTab, so the
\* navigation effect runs again.
addArticleTabResolve(p) ==
    /\ app.lookups[p] # <<>>
    /\ pc[p] = "returned"
    /\ LET call == app.lookups[p][1]
           article == find(ret[p], call.slug)
           a == [app EXCEPT !.lookups[p] = <<>>]
       IN  IF article = <<>>
           THEN app' = a /\ ServiceIdle
           ELSE NavigationEffect(addArticleTabResolved(a, call, article), 1)
    /\ app'.nextArticleIndex <= FirstArticleIndex + MaxTabs
    /\ UNCHANGED blogIndex

\* The routes of the open article tabs.
OpenRoutes(a) == {ArticlePath(a.articlePages[i].articleSlug) : i \in 1..Len(a.articlePages)}

Without(s, index) == SelectSeq(s, LAMBDA page : page.index # index)

\* removeArticleTab(index).  The effect that follows a change of the open
\* pages may navigate to another open page or to the home page; then the
\* navigation effect runs again.
removeArticleTab(index) ==
    /\ \E i \in 1..Len(app.articlePages) : app.articlePages[i].index = index
    /\ LET a == [app EXCEPT
                   !.articlePages = Without(@, index),
                   !.visiblePageIndexs = SelectSeq(@, LAMBDA i : i # index)]
       IN  \E path \in {app.pathname, HomePath} \cup OpenRoutes(a) :
               NavigationEffect([a EXCEPT !.pathname = path], 1)
    /\ app'.nextArticleIndex <= FirstArticleIndex + MaxTabs
    /\ UNCHANGED blogIndex

\* The routes that are visited: home, an article, and an article that only
\* some document sources hold.
AppPaths == {HomePath, ArticlePath(<<"a">>), ArticlePath(<<"b", "-", "a">>)}

InitTabs ==
    Constructed({[f \in Files |-> IF f = 1 THEN DocNewest ELSE d] : d \in {DocNewest, DocMiddle}})

NextTabs ==
    \/ \E path \in AppPaths, runs \in {1, 2} : AppMount(path, runs)
    \/ \E path \in AppPaths : Navigate(path)
    \/ \E p \in Procs : addArticleTabResolve(p)
    \/ \E index \in FirstArticleIndex..(FirstArticleIndex + MaxTabs) : removeArticleTab(index)
    \/ \E p \in Procs : loadArticlesBegin(p)
    \/ \E p \in Procs : loadArticlesStep(p)
    \/ \E p \in Procs : getArticlesReturn(p)

SpecTabs == InitTabs /\ [][NextTabs]_vars

(***************************************************************************)
(* BlogIndex: the search.                                                  *)
(***************************************************************************)
\* The ArticleSearchParams of a render.
CurrentSearchParams(b) ==
    [op |-> "searchArticles", query |-> b.searchQuery, tag |-> b.selectedTag,
     sortBy |-> b.sortBy, sortOrder |-> b.sortOrder, page |-> b.currentPage]

\* A request resolves with what the service made of the array `list`.
Settled(b, request, list) ==
    IF request.op = "getAllTags"
    THEN [b EXCEPT !.allTags = AllTags(list)]
    ELSE [b EXCEPT !.searchResult = <<SearchResult(list, request)>>, !.loading = FALSE]

\* The requests of one commit, the last of them a search: setLoading(true),
\* then the calls of the service.
BlogIndexRequests(b, requests) ==
    LET n == Len(requests)
        pending == [b EXCEPT !.loading = TRUE]
        first == Least(FreeSlots(n))
    IN  IF Len(articles) = 0
        THEN /\ FreeSlots(n) \subseteq Procs
             /\ getArticlesLoading(FreeSlots(n))
             /\ blogIndex' = [pending EXCEPT !.requests =
                                [p \in Procs |-> IF p \in FreeSlots(n)
                                                 THEN <<requests[p - first + 1]>>
                                                 ELSE @[p]]]
        ELSE /\ ServiceIdle
             /\ blogIndex' =
                  IF n = 1
                  THEN Settled(pending, requests[1], articles)
                  ELSE Settled(Settled(pending, requests[1], articles), requests[2], articles)

\* BlogIndex mounts: loadInitialData, then searchArticles.
BlogIndexMount ==
    /\ ~blogIndex.mounted
    /\ LET b == [blogIndex EXCEPT !.mounted = TRUE]
       IN  BlogIndexRequests(b, <<[op |-> "getAllTags"], CurrentSearchParams(b)>>)
    /\ UNCHANGED app

\* A handler has set the state to b: when a parameter of the search has
\* changed, searchArticles is a new function and its effect calls it.
BlogIndexCommit(b) ==
    /\ CurrentSearchParams(b) # CurrentSearchParams(blogIndex)
    /\ BlogIndexRequests(b, <<CurrentSearchParams(b)>>)

handleSearchChange(value) ==
    /\ blogIndex.mounted
    /\ BlogIndexCommit([blogIndex EXCEPT !.searchQuery = value, !.currentPage = 1])
    /\ UNCHANGED app

handleTagFilter(tag) ==
    /\ blogIndex.mounted
    /\ BlogIndexCommit([blogIndex EXCEPT
          !.selectedTag = IF tag = @ THEN <<>> ELSE tag, !.currentPage = 1])
    /\ UNCHANGED app

handleClearFilters ==
    /\ blogIndex.mounted
    /\ BlogIndexCommit([blogIndex EXCEPT
          !.searchQuery = <<>>, !.selectedTag = <<>>, !.sortBy = "date",
          !.sortOrder = "desc", !.currentPage = 1])
    /\ UNCHANGED app

\* The select boxes of the sort key and the sort order.
selectSortBy(value) ==
    /\ blogIndex.mounted
    /\ BlogIndexCommit([blogIndex EXCEPT !.sortBy = value])
    /\ UNCHANGED app

selectSortOrder(value) ==
    /\ blogIndex.mounted
    /\ BlogIndexCommit([blogIndex EXCEPT !.sortOrder = value])
    /\ UNCHANGED app

\* A request of BlogIndex resolves.
BlogIndexResolve(p) ==
    /\ blogIndex.requests[p] # <<>>
    /\ pc[p] = "returned"
    /\ blogIndex' = Settled([blogIndex EXCEPT !.requests[p] = <<>>],
                            blogIndex.requests[p][1], ret[p])
    /\ ServiceIdle
    /\ UNCHANGED app

InitBlog == Constructed({[f \in Files |-> IF f = 1 THEN DocNewest ELSE DocOldest]})

NextBlog ==
    \/ BlogIndexMount
    \/ \E value \in {<<>>, <<"A">>} : handleSearchChange(value)
    \/ \E tag \in {<<"a", "b">>} : handleTagFilter(tag)
    \/ handleClearFilters
    \/ \E value \in {"date", "title"} : selectSortBy(value)
    \/ \E value \in {"asc", "desc"} : selectSortOrder(value)
    \/ \E p \in Procs : BlogIndexResolve(p)
    \/ \E p \in Procs : loadArticlesBegin(p)
    \/ \E p \in Procs : loadArticlesStep(p)
    \/ \E p \in Procs : getArticlesReturn(p)

SpecBlog == InitBlog /\ [][NextBlog]_vars

(***************************************************************************)
(* Notions the properties share.                                           *)
(***************************************************************************)
\* The call's load pass has run to its end.
PassDone(p) == pc[p] \in {"done", "returned"} /\ idx[p] = NumFiles

NoReloadCalled == \A p \in Procs : kind[p] # "reload"

\* A document the loader can fetch and parse and that has a title, a date
\* and an author.
IsValidDocument(doc) ==
    doc.status = "ok" /\ doc.title # <<>> /\ doc.date # "" /\ doc.author # ""

ValidFiles == {f \in Files : IsValidDocument(docs[f])}

\* a.date >= b.date, as calendar dates.
DateAtLeast(a, b) ==
    /\ ~IsNaNDate(a.metadata.date)
    /\ ~IsNaNDate(b.metadata.date)
    /\ getTime(a.metadata.date) >= getTime(b.metadata.date)

(***************************************************************************)
(* C1.  Single-flight: while the first load is still running and nobody    *)
(* has called reloadArticles, callers of getArticles on the empty index    *)
(* share that load, so no file is fetched more than once in total.         *)
(***************************************************************************)
C1_SingleFlight ==
    (NoReloadCalled /\ \A p \in Procs : ~PassDone(p))
        => \A f \in Files : Fetched(f) <= 1

(***************************************************************************)
(* C2.  A getArticles call that starts while a reloadArticles call is      *)
(* running on a non-empty index resolves with the index as it was before   *)
(* that reload.                                                            *)
(***************************************************************************)
C2_ReadsSeePreReloadIndex ==
    \A p \in Procs :
        (kind[p] = "get" /\ pc[p] = "returned" /\ snap[p] # <<>>)
            => ret[p] = snap[p]

(***************************************************************************)
(* C3.  The index is never partially mutated: it is empty (as constructed, *)
(* or as a reload left it), or it is the complete sorted result of one     *)
(* load pass that has processed every file.                                *)
(***************************************************************************)
C3_NoPartialIndex ==
    /\ gen = 0 => articles = <<>>
    /\ gen # 0 => /\ PassDone(gen)
                  /\ articles = SortByDate(acc[gen])

\* The index is complete while another pass holds part of its own result.
C3_Witness ==
    /\ gen # 0
    /\ \E q \in Procs :
          /\ pc[q] = "fetch"
          /\ acc[q] # <<>>
          /\ Len(acc[q]) < Len(articles)

(***************************************************************************)
(* C4.  Once a load has assigned the index, every article's date is at     *)
(* least the date of the article after it.                                 *)
(***************************************************************************)
C4_SortedByDate ==
    gen # 0 =>
        \A i \in 1..(Len(articles) - 1) : DateAtLeast(articles[i], articles[i + 1])

(***************************************************************************)
(* C5.  The load is idempotent: with an unchanged document source and no   *)
(* reload, the index a load pass leaves is the one every other completed   *)
(* pass has computed, same articles in the same order.                     *)
(***************************************************************************)
C5_LoadIdempotent ==
    (NoReloadCalled /\ gen # 0)
        => \A p \in Procs : PassDone(p) => articles = SortByDate(acc[p])

\* Two load passes have run to their end on a document source with articles.
C5_Witness ==
    /\ NoReloadCalled
    /\ articles # <<>>
    /\ \E p, q \in Procs : p # q /\ PassDone(p) /\ PassDone(q)

(***************************************************************************)
(* C6.  The index is populated once: after a load pass has completed, and  *)
(* as long as reloadArticles is not called, no call starts another pass.   *)
(***************************************************************************)
C6_PopulatedOnce ==
    [][((\E p \in Procs : PassDone(p)) /\ (\A q \in Procs : kind'[q] # "reload"))
          => \A q \in Procs : pc[q] = "idle" => pc'[q] # "files"]_vars

(***************************************************************************)
(* C7.  A document that cannot be fetched or parsed, or that lacks title,  *)
(* date or author, never aborts the load: the pass goes on with the files  *)
(* after it, holding one article for each valid document it has passed,    *)
(* and at its end the index holds one article for each valid document and  *)
(* no other.                                                               *)
(***************************************************************************)
C7_BadDocumentsSkipped ==
    /\ pc[1] = "fetch" =>
          {acc[1][i].filename : i \in 1..Len(acc[1])}
             = {getArticleFiles[f] : f \in {g \in ValidFiles : g < idx[1]}}
    /\ pc[1] = "done" =>
          /\ Len(articles) = Cardinality(ValidFiles)
          /\ {articles[i].filename : i \in 1..Len(articles)}
                = {getArticleFiles[f] : f \in ValidFiles}

\* A load has ended over a document set with a valid and an invalid document.
C7_Witness ==
    /\ pc[1] = "done"
    /\ ValidFiles # {}
    /\ ValidFiles # Files

(***************************************************************************)
(* C8.  When no document can be fetched during a whole pass, the index is  *)
(* empty and the promise of the load settles otherwise than it does after  *)
(* a successful load.                                                      *)
(***************************************************************************)
C8_FailureReported ==
    \A p \in Procs :
        (PassDone(p) /\ \A f \in Files : docs[f].status = "unreachable")
            => (articles = <<>> /\ outcome[p] # "fulfilled")

(***************************************************************************)
(* C9.  Loading a valid document yields exactly one article: title, date   *)
(* and author are the document's, tags are the document's tag array (none  *)
(* if it has no array), the summary is the document's, the slug is the     *)
(* declared slug if there is one and else the slug generated from the      *)
(* title, and the path is /article/ followed by that slug.                 *)
(***************************************************************************)
C9_ValidDocumentLoaded ==
    (pc[1] = "done" /\ IsValidDocument(docs[1])) =>
        /\ Len(articles) = 1
        /\ LET doc == docs[1]
               article == articles[1]
               slug == IF doc.slug # <<>> THEN doc.slug ELSE generateSlug(doc.title)
           IN  /\ article.metadata.title = doc.title
               /\ article.metadata.date = doc.date
               /\ article.metadata.author = doc.author
               /\ article.metadata.summary = doc.summary
               /\ article.metadata.tags
                     = (IF doc.tags.isArray THEN doc.tags.value ELSE <<>>)
               /\ article.metadata.slug = slug
               /\ article.path = <<"/article/">> \o slug
               /\ article.filename = getArticleFiles[1]

\* A valid document with a declared slug has been loaded.
C9_Witness ==
    /\ pc[1] = "done"
    /\ IsValidDocument(docs[1])
    /\ docs[1].slug # <<>>
    /\ docs[1].slug # generateSlug(docs[1].title)
    /\ Len(articles) = 1

(***************************************************************************)
(* C10.  No two articles of the index have the same slug.                  *)
(***************************************************************************)
C10_UniqueSlugs ==
    \A i, j \in 1..Len(articles) :
        i # j => articles[i].metadata.slug # articles[j].metadata.slug

(***************************************************************************)
(* Notions the properties of the readers share.                            *)
(***************************************************************************)
Searched == params.op = "searchArticles"

\* The query occurs in the text, letters compared without regard to case.
SameLetter(c, d) == c = d \/ {c, d} = {"A", "a"}

OccursIn(q, text) ==
    \E i \in 0..(Len(text) - Len(q)) : \A k \in 1..Len(q) : SameLetter(text[i + k], q[k])

\* The query occurs in the title, the summary, a tag or the excerpt.
QueryOccurs(q, article) ==
    \/ OccursIn(q, article.metadata.title)
    \/ OccursIn(q, article.metadata.summary)
    \/ \E k \in 1..Len(article.metadata.tags) : OccursIn(q, article.metadata.tags[k])
    \/ OccursIn(q, article.excerpt)

Carries(article, tag) == tag \in {article.metadata.tags[k] : k \in 1..Len(article.metadata.tags)}

\* The files of the articles of a list.
FilesOf(list) == {list[i].filename : i \in 1..Len(list)}

\* The pages 1..k of the search of the state, one after the other.
RECURSIVE PagesUpTo(_)
PagesUpTo(k) ==
    IF k = 0 THEN <<>>
    ELSE PagesUpTo(k - 1) \o SearchResult(articles, [params EXCEPT !.page = k]).articles

(***************************************************************************)
(* C11.  Pagination invariant: for every filter and sort, the pages        *)
(* 1..totalPages that searchArticles returns under the same parameters,    *)
(* put one after the other, are the full filtered and sorted list, nothing *)
(* twice and nothing left out; hasNextPage is true iff page < totalPages.  *)
(***************************************************************************)
C11_PaginationInvariant ==
    Searched =>
        /\ PagesUpTo(result.totalPages) = FilteredSorted(articles, params)
        /\ Len(PagesUpTo(result.totalPages)) = result.totalCount
        /\ result.articles =
              SubSeq(PagesUpTo(result.totalPages),
                     Min(articlesPerPage * (result.currentPage - 1), result.totalCount) + 1,
                     Min(articlesPerPage * result.currentPage, result.totalCount))
        /\ result.hasNextPage <=> (result.currentPage < result.totalPages)

\* A first page of a title-sorted result of two pages.
C11_Witness ==
    /\ Searched
    /\ params.sortBy = "title"
    /\ result.totalPages = 2
    /\ result.currentPage = 1
    /\ result.hasNextPage

(***************************************************************************)
(* C12.  A page number above totalPages gives an empty page and no error:  *)
(* totalCount is the size of the filtered set, totalPages is               *)
(* ceil(totalCount / pageSize) (0 for no article), hasNextPage is false    *)
(* and hasPreviousPage is (page > 1).                                      *)
(***************************************************************************)
C12_PageBeyondLast ==
    (Searched /\ PageOf(params) > result.totalPages) =>
        /\ result.articles = <<>>
        /\ result.totalCount =
              Cardinality({i \in 1..Len(articles) :
                  /\ params.query = <<>> \/ QueryOccurs(params.query, articles[i])
                  /\ params.tag = <<>> \/ Carries(articles[i], params.tag)})
        /\ result.totalPages * articlesPerPage >= result.totalCount
        /\ (result.totalPages - 1) * articlesPerPage < result.totalCount \/ result.totalCount = 0
        /\ result.totalCount = 0 => result.totalPages = 0
        /\ ~result.hasNextPage
        /\ result.hasPreviousPage <=> (PageOf(params) > 1)

\* Page 3 of a result of two pages.
C12_Witness ==
    /\ Searched
    /\ result.totalPages = 2
    /\ params.page = 3
    /\ result.hasPreviousPage

(***************************************************************************)
(* C13.  A query against an empty index is no error.  As claimed: for      *)
(* every parameter value, any page number included, searchArticles returns *)
(* totalCount 0, an empty page, and hasNextPage and hasPreviousPage both   *)
(* false.                                                                  *)
(***************************************************************************)
C13_EmptyIndexBothFlagsFalse ==
    (Searched /\ articles = <<>>) =>
        /\ result.totalCount = 0
        /\ result.articles = <<>>
        /\ ~result.hasNextPage
        /\ ~result.hasPreviousPage

(***************************************************************************)
(* C13, amended.  On an empty index searchArticles returns totalCount 0,   *)
(* an empty page and hasNextPage false for every parameter value;          *)
(* hasPreviousPage is false for page 1 or no page, and true for a higher   *)
(* page number.                                                            *)
(***************************************************************************)
C13_EmptyIndexResult ==
    (Searched /\ articles = <<>>) =>
        /\ result.totalCount = 0
        /\ result.totalPages = 0
        /\ result.articles = <<>>
        /\ ~result.hasNextPage
        /\ params.page \in {0, 1} => ~result.hasPreviousPage
        /\ params.page > 1 => result.hasPreviousPage

\* A query with a tag for page 2 of an index no document got into.
C13_Witness ==
    /\ Searched
    /\ articles = <<>>
    /\ \A f \in Files : ~IsValidDocument(docs[f])
    /\ params.query # <<>>
    /\ params.tag # <<>>
    /\ params.page = 2

(***************************************************************************)
(* C14.  With a query that is not blank and no tag, searchArticles matches *)
(* exactly the articles in whose title, summary, tags or excerpt the query *)
(* occurs, case not regarded, and leaves out all others.                   *)
(***************************************************************************)
NonBlank(q) == \E k \in 1..Len(q) : ~IsSpace(q[k])

C14_QueryMatches ==
    (Searched /\ NonBlank(params.query) /\ params.tag = <<>>) =>
        LET matching == {i \in 1..Len(articles) : QueryOccurs(params.query, articles[i])}
        IN  /\ result.totalCount = Cardinality(matching)
            /\ PageOf(params) = 1 =>
                  FilesOf(result.articles) = {articles[i].filename : i \in matching}

\* A query that occurs only in the excerpt of one article of two.
C14_Witness ==
    /\ Searched
    /\ params.query = <<"A", " ">>
    /\ params.tag = <<>>
    /\ params.page = 1
    /\ Len(articles) = 2
    /\ Len(result.articles) = 1
    /\ ~OccursIn(params.query, result.articles[1].metadata.title)
    /\ ~OccursIn(params.query, result.articles[1].metadata.summary)
    /\ result.articles[1].excerpt = <<"A", " ", "b">>

(***************************************************************************)
(* C15.  An empty query and one of whitespace only are no filter: the      *)
(* result is that of the same call without a query, whatever the index     *)
(* holds.                                                                  *)
(***************************************************************************)
C15_BlankQueryIsNoFilter ==
    (Searched /\ ~NonBlank(params.query)) =>
        result = SearchResult(articles, [params EXCEPT !.query = <<>>])

(***************************************************************************)
(* C16.  Tag filter, as claimed: searchArticles with a tag returns exactly *)
(* the articles whose tags contain that very tag, case regarded, whatever  *)
(* the query of the same call is.                                          *)
(***************************************************************************)
C16_TagAloneDecides ==
    (Searched /\ params.tag # <<>>) =>
        LET tagged == {i \in 1..Len(articles) : Carries(articles[i], params.tag)}
        IN  /\ result.totalCount = Cardinality(tagged)
            /\ PageOf(params) = 1 =>
                  FilesOf(result.articles) = {articles[i].filename : i \in tagged}

(***************************************************************************)
(* C16, amended.  searchArticles with a tag returns exactly the articles   *)
(* whose tags contain that very tag, case regarded, and in which the query *)
(* of the same call, if there is one, occurs.                              *)
(***************************************************************************)
C16_TagAndQueryDecide ==
    (Searched /\ params.tag # <<>>) =>
        LET kept == {i \in 1..Len(articles) :
                        /\ Carries(articles[i], params.tag)
                        /\ params.query = <<>> \/ QueryOccurs(params.query, articles[i])}
        IN  /\ result.totalCount = Cardinality(kept)
            /\ PageOf(params) = 1 =>
                  FilesOf(result.articles) = {articles[i].filename : i \in kept}

\* Two articles in whose tags the query occurs; only one of them has the
\* tag asked for.
C16_Witness ==
    /\ Searched
    /\ params.tag = <<"A">>
    /\ params.query = <<"A">>
    /\ params.page = 1
    /\ Len(articles) = 2
    /\ \A i \in 1..2 : QueryOccurs(params.query, articles[i])
    /\ Len(result.articles) = 1
    /\ Carries(result.articles[1], <<"A">>)

(***************************************************************************)
(* C17.  Search ordering: the result is ordered by the key asked for, not  *)
(* falling for ascending and not rising for descending; for an index of    *)
(* articles with pairwise distinct dates, sortBy 'date' with sortOrder     *)
(* 'asc' returns them in the reverse of the index order, and a call with   *)
(* neither sortBy nor sortOrder returns them in index order.               *)
(***************************************************************************)
\* Article a may stand before article b in a result sorted as asked.
InRequestedOrder(a, b, sp) ==
    LET byTitle == sp.sortBy = "title"
        ascending == sp.sortOrder = "asc"
    IN  IF byTitle
        THEN (IF ascending
              THEN localeCompare(a.metadata.title, b.metadata.title) <= 0
              ELSE localeCompare(a.metadata.title, b.metadata.title) >= 0)
        ELSE (IF ascending THEN DateAtLeast(b, a) ELSE DateAtLeast(a, b))

FileSequence(list) == [i \in 1..Len(list) |-> list[i].filename]

Reverse(s) == [i \in 1..Len(s) |-> s[Len(s) + 1 - i]]

DistinctDates ==
    \A i, j \in 1..Len(articles) :
        i # j => articles[i].metadata.date # articles[j].metadata.date

C17_SearchOrdering ==
    Searched =>
        /\ \A i \in 1..(Len(result.articles) - 1) :
              InRequestedOrder(result.articles[i], result.articles[i + 1], params)
        /\ (/\ DistinctDates
            /\ params.query = <<>> /\ params.tag = <<>> /\ PageOf(params) = 1) =>
              /\ (params.sortBy = "date" /\ params.sortOrder = "asc") =>
                    FileSequence(result.articles) = Reverse(FileSequence(articles))
              /\ (params.sortBy = "" /\ params.sortOrder = "") =>
                    FileSequence(result.articles) = FileSequence(articles)

(***************************************************************************)
(* C18.  getAllTags counts over the whole index, each tag once per article *)
(* that carries it: the count of a tag is the number of articles whose     *)
(* tags contain it, also when an article lists the tag more than once.     *)
(***************************************************************************)
Tagged == params.op = "getAllTags"

C18_TagCountedOncePerArticle ==
    Tagged =>
        /\ {result[k].tag : k \in 1..Len(result)} =
              UNION {{articles[i].metadata.tags[j] : j \in 1..Len(articles[i].metadata.tags)} :
                        i \in 1..Len(articles)}
        /\ \A k \in 1..Len(result) :
              result[k].count =
                  Cardinality({i \in 1..Len(articles) : Carries(articles[i], result[k].tag)})

(***************************************************************************)
(* C19.  The output of getAllTags is ordered by count, falling; tags of    *)
(* equal count are in the order in which a scan of the index first meets   *)
(* them.                                                                   *)
(***************************************************************************)
\* Where a scan of the index first meets the tag: the article, then the
\* place among the tags of that article.
FirstArticleWith(tag) == Least({i \in 1..Len(articles) : Carries(articles[i], tag)})

FirstPlaceIn(article, tag) ==
    Least({j \in 1..Len(article.metadata.tags) : article.metadata.tags[j] = tag})

MetBefore(t, u) ==
    \/ FirstArticleWith(t) < FirstArticleWith(u)
    \/ /\ FirstArticleWith(t) = FirstArticleWith(u)
       /\ FirstPlaceIn(articles[FirstArticleWith(t)], t)
            < FirstPlaceIn(articles[FirstArticleWith(t)], u)

C19_TagsOrdered ==
    Tagged =>
        \A k, l \in 1..Len(result) :
            k < l =>
                \/ result[k].count > result[l].count
                \/ /\ result[k].count = result[l].count
                   /\ MetBefore(result[k].tag, result[l].tag)

\* A tag met later and counted more often stands first; two tags of equal
\* count follow in the order of their first articles.
C19_Witness ==
    /\ Tagged
    /\ Len(result) = 3
    /\ result[1].count > result[2].count
    /\ MetBefore(result[2].tag, result[1].tag)
    /\ result[2].count = result[3].count
    /\ FirstArticleWith(result[2].tag) < FirstArticleWith(result[3].tag)

(***************************************************************************)
(* C20.  getArticleNavigation(slug) for a slug at position i of the index  *)
(* returns as previous the title and slug of the article at i - 1 (newer)  *)
(* if i is not the first position, and as next those of the article at     *)
(* i + 1 (older) if i is not the last; for the oldest article of an index  *)
(* of two or more articles, next is undefined and previous is the          *)
(* second-oldest article.                                                  *)
(***************************************************************************)
Navigated == params.op = "getArticleNavigation"

\* The article at position i is older than every other article.
IsOldest(i) ==
    \A j \in 1..Len(articles) :
        j # i => /\ DateAtLeast(articles[j], articles[i])
                 /\ articles[j].metadata.date # articles[i].metadata.date

C20_NavigationNeighbours ==
    Navigated =>
        \A i \in 1..Len(articles) :
            articles[i].metadata.slug = params.currentSlug =>
                /\ result.previous =
                      IF i > 1 THEN NavigationLink(articles[i - 1]) ELSE <<>>
                /\ result.next =
                      IF i < Len(articles) THEN NavigationLink(articles[i + 1]) ELSE <<>>
                /\ (IsOldest(i) /\ Len(articles) >= 2) =>
                      /\ result.next = <<>>
                      /\ result.previous # <<>>
                      /\ \A j \in 1..Len(articles) :
                            j # i => DateAtLeast(articles[j], articles[i - 1])

(***************************************************************************)
(* C21.  A slug lookup miss is no error: for every slug that no article of *)
(* the index has, getArticleBySlug returns null and getArticleNavigation   *)
(* returns a result with neither previous nor next, and neither call       *)
(* changes the index.                                                      *)
(***************************************************************************)
\* The step is a call of a reader, not a change of the document source.
ReaderStep == edits' = edits /\ params'.op # "none"

NoArticleHas(slug) == \A i \in 1..Len(articles) : articles[i].metadata.slug # slug

C21_SlugMiss ==
    [][/\ (ReaderStep /\ params'.op = "getArticleBySlug" /\ NoArticleHas(params'.slug)) =>
            (result' = <<>> /\ articles' = articles)
       /\ (ReaderStep /\ params'.op = "getArticleNavigation"
              /\ NoArticleHas(params'.currentSlug)) =>
            (result' = [previous |-> <<>>, next |-> <<>>] /\ articles' = articles)]_vars

(***************************************************************************)
(* C23.  Readers never change the index: on a loaded index that is not     *)
(* empty, after each call of getArticlesList, searchArticles (any sort key *)
(* and order, with or without filters), getAllTags, getArticleNavigation,  *)
(* getArticleBySlug and getRecentArticles the index has the content and    *)
(* the order it had before.                                                *)
(***************************************************************************)
C23_ReadersKeepIndex ==
    [][(ReaderStep /\ Len(articles) > 0) => articles' = articles]_vars

\* A search sorted by date, oldest first, so in another order than the
\* index, on an index of two articles that the document source no longer
\* holds.
C23_Witness ==
    /\ Searched
    /\ params.sortBy = "date"
    /\ params.sortOrder = "asc"
    /\ Len(articles) = 2
    /\ Len(result.articles) = 2
    /\ result.articles[1].filename = articles[2].filename
    /\ edits > 0
    /\ articles # LoadedIndex(docs)

(***************************************************************************)
(* C24.  Slug collision policy: when two documents of the configured set   *)
(* declare or derive the same slug, the one processed last in the order of *)
(* the set wins: getArticleBySlug for that slug returns the article of the *)
(* document processed later.                                               *)
(***************************************************************************)
\* The place of the article's document in the configured set.
FilePosition(article) == CHOOSE f \in Files : getArticleFiles[f] = article.filename

C24_LastProcessedWins ==
    (params.op = "getArticleBySlug" /\ result # <<>>) =>
        \A i \in 1..Len(articles) :
            articles[i].metadata.slug = params.slug =>
                FilePosition(articles[i]) <= FilePosition(result[1])

(***************************************************************************)
(* C25.  Articles with equal dates keep their discovery order: of two      *)
(* accepted documents with the same date, the one listed earlier in the    *)
(* configured set is earlier in the index after a load.                    *)
(***************************************************************************)
C25_TiesKeepDiscoveryOrder ==
    PassDone(1) =>
        \A i, j \in 1..Len(articles) :
            (/\ articles[i].metadata.date = articles[j].metadata.date
             /\ FilePosition(articles[i]) < FilePosition(articles[j])) => i < j

\* Two articles of one date, next to each other in the index.
C25_Witness ==
    /\ PassDone(1)
    /\ Len(articles) >= 2
    /\ \E i \in 1..(Len(articles) - 1) :
          /\ articles[i].metadata.date = articles[i + 1].metadata.date
          /\ ~IsNaNDate(articles[i].metadata.date)
          /\ FilePosition(articles[i]) < FilePosition(articles[i + 1])

\* Notions of the derived fields.
Excerpted == params.op = "extractExcerpt"
Timed == params.op = "calculateReadingTime"
Max(a, b) == IF a >= b THEN a ELSE b

\* C22: an excerpt is never longer than the requested length plus the three
\* characters of the ellipsis, and a plain text that fits the length is
\* returned as it is, without ellipsis.
C22_ExcerptLength ==
    Excerpted =>
        /\ Len(result) <= params.length + Len(Ellipsis)
        /\ Len(PlainText(params.content)) <= params.length
              => result = PlainText(params.content)

\* A plain text that fits and one that does not, each with its excerpt.
C22_Witness ==
    /\ Excerpted
    /\ params.length = excerptLength
    /\ Len(PlainText(params.content)) > excerptLength
    /\ Len(result) = excerptLength + Len(Ellipsis)

C22_WitnessVerbatim ==
    /\ Excerpted
    /\ params.length > 0
    /\ Len(PlainText(params.content)) = params.length
    /\ Len(params.content) > params.length
    /\ result = PlainText(params.content)

\* The last whitespace of the first `length` characters of the plain text,
\* as the number of characters before it; -1 when there is none.
LastWhitespaceIn(plainText, length) ==
    Greatest({-1} \cup {k - 1 : k \in {k \in 1..Min(length, Len(plainText)) : IsSpace(plainText[k])}})

\* C26: a plain text longer than the length is cut back to its last
\* whitespace position p within the length exactly when p is at or after
\* four fifths of the length, is cut at the length otherwise, and gets the
\* ellipsis in both cases.
C26_TruncationRule ==
    (Excerpted /\ Len(PlainText(params.content)) > params.length) =>
        LET plainText == PlainText(params.content)
            p == LastWhitespaceIn(plainText, params.length)
        IN  result = IF p >= 0 /\ 5 * p >= 4 * params.length
                     THEN SubSeq(plainText, 1, p) \o Ellipsis
                     ELSE SubSeq(plainText, 1, params.length) \o Ellipsis

\* The number of maximal runs of non-whitespace characters.
RunsOfNonWhitespace(content) ==
    Cardinality({k \in 1..Len(content) :
        ~IsSpace(content[k]) /\ (k = 1 \/ IsSpace(content[k - 1]))})

\* W / wordsPerMinute, rounded up.
MinutesRoundedUp(W) == (W + wordsPerMinute - 1) \div wordsPerMinute

\* C27: the reading time is the number of maximal runs of non-whitespace
\* of the body divided by 200 and rounded up, and is never less than 1,
\* also for an empty body and a body of whitespace only.
C27_ReadingTime ==
    Timed =>
        /\ result = Max(1, MinutesRoundedUp(RunsOfNonWhitespace(params.content)))
        /\ result >= 1

\* A body of exactly two hundred words between whitespace, read in a minute.
C27_Witness ==
    /\ Timed
    /\ RunsOfNonWhitespace(params.content) = wordsPerMinute
    /\ IsSpace(params.content[1])
    /\ result = 1

\* A body of whitespace only.
C27_WitnessBlank ==
    /\ Timed
    /\ Len(params.content) > 0
    /\ RunsOfNonWhitespace(params.content) = 0
    /\ result = 1

\* The calls that ran a load pass, and the one that started its pass last
\* (calls take the slots in the order in which they are made).
Passes == {p \in Procs : outcome[p] = "fulfilled" \/ pc[p] \in {"files", "fetch"}}
AllPassesFinished == \A p \in Procs : pc[p] \notin {"files", "fetch"}
LastStarted == Greatest(Passes)

\* C28: once all overlapping load passes have finished, the index holds the
\* result of the pass that was started last.
C28_LastStartedPassWins ==
    (AllPassesFinished /\ Passes # {}) => articles = SortByDate(acc[LastStarted])

\* dynamicArticlePages: the article tabs that are shown.
OpenTabs(a) ==
    [k \in 1..Len(a.visiblePageIndexs) |->
        a.articlePages[Least({i \in 1..Len(a.articlePages) :
                                a.articlePages[i].index = a.visiblePageIndexs[k]})]]

\* C29: at most one open tab per article slug, and no two open tabs with
\* the same index.
C29_ArticleTabsUnique ==
    \A i, j \in 1..Len(OpenTabs(app)) :
        i # j => /\ OpenTabs(app)[i].articleSlug # OpenTabs(app)[j].articleSlug
                 /\ OpenTabs(app)[i].index # OpenTabs(app)[j].index

\* C30: whenever BlogIndex is not loading, the result it shows is the one
\* of the current query, tag, sort key, sort order and page.
C30_NoStaleResult ==
    (blogIndex.mounted /\ ~blogIndex.loading) =>
        blogIndex.searchResult =
            <<SearchResult(LoadedIndex(docs), CurrentSearchParams(blogIndex))>>

====
